---- MODULE Spec2Model ----
(***************************************************************************)
(* A model of gftools.push.trafficjam: the PushItem record, the PushItems  *)
(* registry and its add algorithm, the server file that a registry is      *)
(* written to and read from, the push list of an item, and the union of    *)
(* two registries.                                                         *)
(*                                                                         *)
(* A string is a sequence of one-character strings, a path (pathlib.Path,  *)
(* relative, already split) is the sequence of its parts, so that suffix,  *)
(* str() and the substring test of add are computed as Python computes     *)
(* them.                                                                   *)
(***************************************************************************)
EXTENDS Integers, Sequences, FiniteSets, TLC

VARIABLES
    items,   \* the PushItems list (self): a sequence of PushItem records
    prev,    \* the list as it was before the last call
    call,    \* the last call: its operation, arguments and results
    doc,     \* the text of the server file (the manifest)
    disk,    \* the paths that exist in the checkout
    board,   \* the writes the project board has received, oldest first
    jam      \* the call of from_traffic_jam: where it is, and its locals

vars == <<items, prev, call, doc, disk, board, jam>>

\* ------------------------------------------------------------------ bounds

\* The longest registry add is still called on.
MaxItems == 3

\* How often the dedup run adds the same logical item.
MaxRepeat == 3

\* The longest registry that is written to a server file or asked for its
\* missing paths.
MaxMembers == 3

\* The most lines of a server file that is read without having been written.
MaxLines == 2

\* The most calls of to_server_file and from_server_file in a row.
MaxCalls == 3

\* The most requests the project board is sent.
MaxWrites == 4

\* The longest registry on either side of a union or a difference.
MaxOperand == 2

\* The most items a project board holds.
MaxBoard == 4

\* The items of one page of the board: the query asks for 100 (first: 100).
PageSize == 2

\* The most page requests of one call that fail.
MaxFailures == 2

\* ----------------------------------------------------------------- strings

\* a in b, for Python strings
InStr(a, b) ==
    \E i \in 0..(Len(b) - Len(a)) : SubSeq(b, i + 1, i + Len(a)) = a

RECURSIVE Join(_)
\* "/".join(parts), for a non-empty sequence of parts
Join(ps) ==
    IF Len(ps) = 1 THEN ps[1]
    ELSE Join(SubSeq(ps, 1, Len(ps) - 1)) \o <<"/">> \o ps[Len(ps)]

\* ---------------------------------------------------------------- pathlib

\* str(path): the parts joined by "/", "." for the empty path
PathStr(p) == IF p = <<>> THEN <<".">> ELSE Join(p)

\* path.parent: the path without its last part; the empty path is its own parent
Parent(p) == IF p = <<>> THEN p ELSE SubSeq(p, 1, Len(p) - 1)

\* path.name: the last part, "" for the empty path
Name(p) == IF p = <<>> THEN <<>> ELSE p[Len(p)]

\* path.suffix: the name from its last dot on, unless that dot is the first
\* or the last character of the name
Suffix(p) ==
    LET name == Name(p)
        dots == {j \in 1..Len(name) : name[j] = "."}
    IN  IF dots = {} THEN <<>>
        ELSE LET j == CHOOSE d \in dots : \A e \in dots : e <= d
             IN  IF 1 < j /\ j < Len(name) THEN SubSeq(name, j, Len(name))
                 ELSE <<>>

\* s in path.parts
HasPart(p, s) == \E k \in 1..Len(p) : p[k] = s

\* ------------------------------------------------------------- the names

article == <<"a","r","t","i","c","l","e">>
static == <<"s","t","a","t","i","c">>
ofl == <<"o","f","l">>
ufl == <<"u","f","l">>
apache == <<"a","p","a","c","h","e">>
designers == <<"d","e","s","i","g","n","e","r","s">>
lang == <<"l","a","n","g">>
axisregistry == <<"a","x","i","s","r","e","g","i","s","t","r","y">>
textproto == <<".","t","e","x","t","p","r","o","t","o">>

FAMILY_FILE_SUFFIXES ==
    { <<".","t","t","f">>, <<".","o","t","f">>, <<".","h","t","m","l">>,
      <<".","p","b">>, <<".","t","x","t">>, <<".","y","a","m","l">>,
      <<".","p","n","g">> }

FamilyRoots == {ofl, ufl, apache, designers}

DataRoots == {lang, axisregistry}

\* ------------------------------------------------------ gftools.push.utils

Lib == <<"L","i","b">>
data == <<"d","a","t","a">>

\* repo_path_to_google_path: the path without its Lib/<pkg>/data infix
\* (lang/Lib/gflanguages/data/languages/x.textproto -> lang/languages/x.textproto,
\*  axisregistry/Lib/axisregistry/data/x.textproto -> axisregistry/x.textproto)
repo_path_to_google_path(p) ==
    LET at == {k \in 1..(Len(p) - 2) : p[k] = Lib /\ p[k + 2] = data}
    IN  IF at = {} THEN p
        ELSE LET k == CHOOSE a \in at : \A b \in at : a <= b
             IN  SubSeq(p, 1, k - 1) \o SubSeq(p, k + 3, Len(p))

\* ------------------------------------------------------------- PushItem

\* None, for an optional field; merged is None, "True" or "False", and id_ is
\* None or an opaque string
None == "None"

\* PushItem(path, category, status, url, push_list, merged, id_)
PushItem(path, category, status, url, push_list, merged, id_) ==
    [path |-> path, category |-> category, status |-> status, url |-> url,
     push_list |-> push_list, merged |-> merged, id_ |-> id_]

\* __eq__ as the dataclass would generate it: every field compared
ItemEq_fields(a, b) == a = b

\* PushItem.__eq__
ItemEq(a, b) == a.path = b.path

\* hash(path): a value that equal paths share
PathHash(p) == <<"hash", p>>

\* __hash__ over more than __eq__ compares: path and url
ItemHash_url(a) == <<"hash", a.path, a.url>>

\* PushItem.__hash__
ItemHash(a) == PathHash(a.path)

\* ------------------------------------------------------- PushItems.add

\* the rules of add without the fourth: no file of lang or axisregistry is
\* skipped
AddRule_noskip(p) ==
    IF HasPart(p, article) \/ HasPart(p, static) THEN "article"
    ELSE IF (\E d \in FamilyRoots : HasPart(p, d))
            /\ Suffix(p) \in FAMILY_FILE_SUFFIXES THEN "family"
    ELSE IF (\E d \in DataRoots : HasPart(p, d)) /\ Suffix(p) = textproto
         THEN "textproto"
    ELSE "none"

\* the first rule of add that matches the path: lines 292, 299, 306, 313
AddRule(p) ==
    IF HasPart(p, article) \/ HasPart(p, static) THEN "article"
    ELSE IF (\E d \in FamilyRoots : HasPart(p, d))
            /\ Suffix(p) \in FAMILY_FILE_SUFFIXES THEN "family"
    ELSE IF (\E d \in DataRoots : HasPart(p, d)) /\ Suffix(p) = textproto
         THEN "textproto"
    ELSE IF (\E d \in DataRoots : HasPart(p, d)) /\ Suffix(p) # textproto
         THEN "skip"
    ELSE "none"

\* item.path when the rules are done; is_dir is what item.path.is_dir() answers
AddPath(p, is_dir) ==
    CASE AddRule(p) = "article" ->
            IF is_dir THEN Parent(p) ELSE Parent(Parent(p))
      [] AddRule(p) = "family" -> Parent(p)
      [] AddRule(p) = "textproto" -> repo_path_to_google_path(p)
      [] OTHER -> p

\* add without its check for a parent dir (line 320)
AddReturns_nocheck(p, is_dir) == AddRule(p) = "skip"

\* add returns before it touches the list: line 317, line 321
AddReturns(p, is_dir) ==
    \/ AddRule(p) = "skip"
    \/ Len(AddPath(p, is_dir)) = 1

\* list.pop(k), k counted from 1
Pop(s, k) == SubSeq(s, 1, k - 1) \o SubSeq(s, k + 1, Len(s))

\* existing_idx + 1, and 0 for None
ExistingIdx(s, p) ==
    LET hits == {k \in 1..Len(s) : s[k].path = p}
    IN  IF hits = {} THEN 0 ELSE CHOOSE k \in hits : \A j \in hits : k <= j

\* add without the pop of the existing item
PopExisting_keep(s, p) == s

\* the list after "Pop any existing item which has the same path"
PopExisting(s, p) ==
    IF ExistingIdx(s, p) # 0 THEN Pop(s, ExistingIdx(s, p)) ELSE s

\* the condition of the loop at line 333, for member i and the incoming path
ChildTest(i, p) ==
    InStr(PathStr(Parent(i.path)), PathStr(i.path)) \/ i.path = p

\* to_pop + 1, and 0 for None
ToPop(s, p) ==
    LET hits == {k \in 1..Len(s) : ChildTest(s[k], p)}
    IN  IF hits = {} THEN 0 ELSE CHOOSE k \in hits : \A j \in hits : k <= j

\* "if to_pop:": None and the index 0 are both falsy
Truthy(to_pop) == to_pop > 1

\* the list after "Pop any push items which are a child of the item's path"
PopChild(s, p) ==
    IF Truthy(ToPop(s, p)) THEN Pop(s, ToPop(s, p)) ELSE s

\* add that puts the item in front of the members
AddList_front(s, item, is_dir) ==
    IF AddReturns(item.path, is_dir) THEN s
    ELSE LET p == AddPath(item.path, is_dir)
         IN  <<[item EXCEPT !.path = p]>> \o PopChild(PopExisting(s, p), p)

\* the list after self.add(item)
AddList(s, item, is_dir) ==
    IF AddReturns(item.path, is_dir) THEN s
    ELSE LET p == AddPath(item.path, is_dir)
         IN  Append(PopChild(PopExisting(s, p), p), [item EXCEPT !.path = p])

\* ------------------------------------------------------------ the inputs

mp == <<"m","p">>
ns == <<"n","s">>
sub == <<"s","u","b">>
img == <<"i","m","g">>
a_ttf == <<"a",".","t","t","f">>
b_ttf == <<"b",".","t","t","f">>
index_html == <<"i","n","d","e","x",".","h","t","m","l">>
f_png == <<"f",".","p","n","g">>
bounce_textproto == <<"b","o","u","n","c","e">> \o textproto
bounce_pb == <<"b","o","u","n","c","e",".","p","b">>
authors_txt == <<"a","u","t","h","o","r","s",".","t","x","t">>

\* the paths add is called with
RawPaths ==
    { <<ofl>>,
      <<ofl, mp>>,
      <<ofl, mp, sub>>,
      <<ofl, a_ttf>>,
      <<ofl, mp, a_ttf>>,
      <<ofl, mp, b_ttf>>,
      <<ofl, mp, sub, a_ttf>>,
      <<ofl, ns, article>>,
      <<ofl, ns, article, index_html>>,
      <<ofl, ns, article, img, f_png>>,
      <<static, a_ttf>>,
      <<axisregistry, Lib, axisregistry, data, bounce_textproto>>,
      <<axisregistry, Lib, axisregistry, data, bounce_pb>>,
      <<lang, authors_txt>> }

\* the other fields add is called with
Profiles ==
    { PushItem(<<>>, "New", "In Dev / PR Merged", <<"4","5">>, None, None, None),
      PushItem(<<>>, "Upgrade", "In Sandbox", <<"4","6">>, "to_sandbox", "True",
               "PVTI_1") }

\* the items add is called with
Inputs == {[f EXCEPT !.path = p] : p \in RawPaths, f \in Profiles}

\* ------------------------------------------------------------ the calls

NoItem == PushItem(<<>>, None, None, <<>>, None, None, None)

\* from_traffic_jam before it is called.  pc: the line the call is at;
\* service: the items of the board, in the order of the board; last_item,
\* board_items, item_count, data: the locals of that name; requests: the
\* page requests made so far, with the cursor each was made with and whether
\* it was answered; raised: the exception the call ended with.  NoData is
\* data = None
NoData == [answer |-> None, nodes |-> <<>>, cursor |-> 0, totalCount |-> 0]

NoJam ==
    [pc |-> "idle", service |-> <<>>, last_item |-> 0, board_items |-> <<>>,
     item_count |-> 0, data |-> NoData, requests |-> <<>>, raised |-> None]

\* what the calls leave behind.  op: the last operation; item, is_dir: the
\* argument of add and what item.path.is_dir() answered; path: item.path after
\* add; added: whether add appended the item; list, n: the items a run works
\* through and how many of them it has added; other, eq: the right-hand side
\* and the result of ==; set: the result of set(list); raised: the exception
\* the call ended with; text: the server file before the call; round: how far
\* a round trip has come (1 written, 2 written and read, 3 written again);
\* status, push_list: the arguments of from_server_file; left, right: the
\* operands of + and - as the call leaves them; res: the list a query returns
NoCall ==
    [op |-> "new", item |-> NoItem, other |-> NoItem, is_dir |-> FALSE,
     path |-> <<>>, added |-> FALSE, list |-> <<>>, n |-> 0, eq |-> FALSE,
     set |-> {}, raised |-> None, text |-> <<>>, round |-> 0,
     status |-> None, push_list |-> None, left |-> <<>>, right |-> <<>>,
     res |-> <<>>]

\* the record of self.add(item)
AddCall(c, item, is_dir) ==
    [c EXCEPT !.op = "add", !.item = item, !.is_dir = is_dir,
              !.path = IF AddRule(item.path) = "skip" THEN item.path
                       ELSE AddPath(item.path, is_dir),
              !.added = ~AddReturns(item.path, is_dir)]

\* PushItems(): the empty list
Init ==
    /\ items = <<>>
    /\ prev = <<>>
    /\ call = NoCall
    /\ doc = <<>>
    /\ disk = {}
    /\ board = <<>>
    /\ jam = NoJam

\* self.add(item), for an item that is not yet a member
add(item, is_dir) ==
    /\ Len(items) < MaxItems
    /\ items' = AddList(items, item, is_dir)
    /\ prev' = items
    /\ call' = AddCall(call, item, is_dir)
    /\ UNCHANGED <<doc, disk, board, jam>>

\* what item.path.is_dir() may answer: the file system decides, and add asks
\* only under its first rule (line 293)
IsDir(p) == IF AddRule(p) = "article" THEN BOOLEAN ELSE {FALSE}

Next == \E item \in Inputs : \E is_dir \in IsDir(item.path) : add(item, is_dir)

Spec == Init /\ [][Next]_vars

\* ------------------------------------------------- equality, hash and set

\* set.add(x): x joins unless a member has its hash and equals it
SetAdd(S, x) ==
    IF \E y \in S : ItemHash(y) = ItemHash(x) /\ ItemEq(y, x) THEN S
    ELSE S \union {x}

RECURSIVE SetOf(_)
\* set(list)
SetOf(l) ==
    IF l = <<>> THEN {}
    ELSE SetAdd(SetOf(SubSeq(l, 1, Len(l) - 1)), l[Len(l)])

\* the paths of the items that are compared, collected and added again
EqPaths == { <<ofl>>, <<ofl, ns>>, <<ofl, mp, a_ttf>> }

\* their other fields: those of test_push_item_eq, and one item that differs
\* from the first in every field
EqProfiles ==
    { PushItem(<<>>, "Upgrade", "In Dev / PR Merged", <<"4","5">>, None, None, None),
      PushItem(<<>>, "Upgrade", "In Dev / PR Merged", <<"4","6">>, None, None, None),
      PushItem(<<>>, "Upgrade", "In Sandbox", <<"4","5">>, None, None, None),
      PushItem(<<>>, "New", "In Sandbox", <<"4","6">>, "to_sandbox", "True",
               "PVTI_1") }

EqInputs == {[f EXCEPT !.path = p] : p \in EqPaths, f \in EqProfiles}

\* the lists of items a run works through
EqLists == UNION {[1..n -> EqInputs] : n \in 1..MaxRepeat}

InitEq ==
    /\ items = <<>>
    /\ prev = <<>>
    /\ \E l \in EqLists : call = [NoCall EXCEPT !.list = l]
    /\ doc = <<>>
    /\ disk = {}
    /\ board = <<>>
    /\ jam = NoJam

\* item1 == item2, for the first and the last item of the list
eq ==
    /\ call.op = "new"
    /\ call' = [call EXCEPT !.op = "eq", !.item = call.list[1],
                            !.other = call.list[Len(call.list)],
                            !.eq = ItemEq(call.list[1], call.list[Len(call.list)])]
    /\ UNCHANGED <<items, prev, doc, disk, board, jam>>

\* set(items)
set ==
    /\ call.set = {}
    /\ call' = [call EXCEPT !.op = "set", !.set = SetOf(call.list)]
    /\ UNCHANGED <<items, prev, doc, disk, board, jam>>

\* res.add(item) for the next item of the list, as test_push_items_add calls it
add_next ==
    /\ call.op # "eq"
    /\ call.n < Len(call.list)
    /\ LET item == call.list[call.n + 1]
       IN  /\ items' = AddList(items, item, FALSE)
           /\ prev' = items
           /\ call' = [AddCall(call, item, FALSE) EXCEPT !.n = call.n + 1]
    /\ UNCHANGED <<doc, disk, board, jam>>

NextEq == eq \/ set \/ add_next

SpecEq == InitEq /\ [][NextEq]_vars

\* ------------------------------------------------------ strings, again

\* the characters of the model in the order of their code points
CodePoints ==
    << " ","#","-",".","/",
       "0","1","2","3","4","5","6","7","8","9",":",
       "A","B","C","D","E","F","G","H","I","J","K","L","M","N","O","P","Q","R","S","T","U","V","W","X","Y","Z","_",
       "a","b","c","d","e","f","g","h","i","j","k","l","m","n","o","p","q","r","s","t","u","v","w","x","y","z" >>

\* ord(c), up to the characters that are left out
Ord(c) == CHOOSE k \in 1..Len(CodePoints) : CodePoints[k] = c

\* a < b, for Python strings
StrLess(a, b) ==
    \E k \in 1..Len(b) :
        /\ k - 1 <= Len(a)
        /\ SubSeq(a, 1, k - 1) = SubSeq(b, 1, k - 1)
        /\ (Len(a) = k - 1 \/ Ord(a[k]) < Ord(b[k]))

\* p < q as if the paths were compared as the strings they are written as
PathLess_str(p, q) == StrLess(PathStr(p), PathStr(q))

\* p < q, for pathlib paths: the parts are compared one by one
PathLess(p, q) ==
    \E k \in 1..Len(q) :
        /\ k - 1 <= Len(p)
        /\ SubSeq(p, 1, k - 1) = SubSeq(q, 1, k - 1)
        /\ (Len(p) = k - 1 \/ StrLess(p[k], q[k]))

\* s.startswith(pre)
StartsWith(s, pre) == Len(pre) <= Len(s) /\ SubSeq(s, 1, Len(pre)) = pre

RECURSIVE Replace(_, _, _)
\* s.replace(old, new): every occurrence of old, from the left
Replace(s, old, new) ==
    IF Len(s) < Len(old) THEN s
    ELSE IF StartsWith(s, old)
         THEN new \o Replace(SubSeq(s, Len(old) + 1, Len(s)), old, new)
         ELSE <<s[1]>> \o Replace(Tail(s), old, new)

\* the characters str.strip() removes
Whitespace == {" ", "\t", "\n", "\r"}

\* s.strip()
Strip(s) ==
    LET keep == {k \in 1..Len(s) : s[k] \notin Whitespace}
    IN  IF keep = {} THEN <<>>
        ELSE SubSeq(s, CHOOSE a \in keep : \A b \in keep : a <= b,
                       CHOOSE a \in keep : \A b \in keep : b <= a)

RECURSIVE Split(_, _)
\* s.split(sep), for a separator of one character
Split(s, sep) ==
    LET at == {k \in 1..Len(s) : s[k] = sep}
    IN  IF at = {} THEN <<s>>
        ELSE LET k == CHOOSE a \in at : \A b \in at : b <= a
             IN  Append(Split(SubSeq(s, 1, k - 1), sep), SubSeq(s, k + 1, Len(s)))

RECURSIVE JoinWith(_, _)
\* sep.join(ls), for a separator of one character
JoinWith(ls, sep) ==
    IF ls = <<>> THEN <<>>
    ELSE IF Len(ls) = 1 THEN ls[1]
    ELSE JoinWith(SubSeq(ls, 1, Len(ls) - 1), sep) \o <<sep>> \o ls[Len(ls)]

\* Path(s), for a relative path: the parts between the slashes, without the
\* empty ones and the dots
Path(s) == SelectSeq(Split(s, "/"), LAMBDA x : x # <<>> /\ x # <<".">>)

\* ------------------------------------------------------------ PushCategory

\* the values of PushCategory, in the order of its declaration
PushCategoryValues ==
    << "New", "Upgrade", "Other", "Designer profile", "Axis Registry",
       "Knowledge", "Metadata / Description / License", "Sample texts",
       "Blocked", "Deleted" >>

\* a value of PushCategory as a Python string
Chars(c) ==
    CASE c = "New" -> <<"N","e","w">>
      [] c = "Upgrade" -> <<"U","p","g","r","a","d","e">>
      [] c = "Other" -> <<"O","t","h","e","r">>
      [] c = "Designer profile" -> <<"D","e","s","i","g","n","e","r"," ","p","r","o","f","i","l","e">>
      [] c = "Axis Registry" -> <<"A","x","i","s"," ","R","e","g","i","s","t","r","y">>
      [] c = "Knowledge" -> <<"K","n","o","w","l","e","d","g","e">>
      [] c = "Metadata / Description / License" -> <<"M","e","t","a","d","a","t","a"," ","/"," ","D","e","s","c","r","i","p","t","i","o","n"," ","/"," ","L","i","c","e","n","s","e">>
      [] c = "Sample texts" -> <<"S","a","m","p","l","e"," ","t","e","x","t","s">>
      [] c = "Blocked" -> <<"B","l","o","c","k","e","d">>
      [] c = "Deleted" -> <<"D","e","l","e","t","e","d">>

\* PushCategory.from_string: the category of that value, None without one
from_string(string) ==
    LET hit == {k \in 1..Len(PushCategoryValues) :
                    Chars(PushCategoryValues[k]) = string}
    IN  IF hit = {} THEN None
        ELSE PushCategoryValues[CHOOSE k \in hit : \A j \in hit : k <= j]

\* ---------------------------------------------------- the server file

gflanguages == <<"g","f","l","a","n","g","u","a","g","e","s">>

\* google_path_to_repo_path: the Lib/<pkg>/data infix put back
google_path_to_repo_path(p) ==
    IF p # <<>> /\ p[1] = lang /\ ~HasPart(p, Lib)
    THEN <<lang, Lib, gflanguages, data>> \o Tail(p)
    ELSE IF p # <<>> /\ p[1] = axisregistry /\ ~HasPart(p, Lib)
    THEN <<axisregistry, Lib, axisregistry, data>> \o Tail(p)
    ELSE p

\* item.exists(), in a checkout with the paths of d
exists(item, d) == google_path_to_repo_path(item.path) \in d

\* "# Deleted" and "# Deleted: "
DeletedMark == <<"#"," ","D","e","l","e","t","e","d">>
DeletedPrefix == DeletedMark \o <<":"," ">>

\* bins[tag] of to_server_file: the set of the items of that category; the
\* items of category Blocked are in no bin
Bin_blocked(self, tag) ==
    SetOf(SelectSeq(self, LAMBDA i : i.category = tag))

Bin(self, tag) ==
    IF tag = "Blocked" THEN {}
    ELSE SetOf(SelectSeq(self, LAMBDA i : i.category = tag))

RECURSIVE Sorted(_)
\* sorted(bin, key=lambda k: k.path)
Sorted(bin) ==
    IF bin = {} THEN <<>>
    ELSE LET m == CHOOSE x \in bin :
                      \A y \in bin \ {x} : PathLess(x.path, y.path)
         IN  <<m>> \o Sorted(bin \ {m})

\* the line of one item (lines 368-374)
ItemLine(item, d) ==
    IF exists(item, d) THEN PathStr(item.path) \o <<" ","#"," ">> \o item.url
    ELSE IF item.url # <<>>
         THEN DeletedPrefix \o PathStr(item.path) \o <<" ","#"," ">> \o item.url
         ELSE DeletedPrefix \o PathStr(item.path)

\* the lines of one tag: nothing without a bin, else the header, the items
\* and an empty line
Group(self, tag, d) ==
    IF Bin(self, tag) = {} THEN <<>>
    ELSE LET members == Sorted(Bin(self, tag))
         IN  <<<<"#"," ">> \o Chars(tag)>>
             \o [k \in 1..Len(members) |-> ItemLine(members[k], d)]
             \o << <<>> >>

RECURSIVE Res(_, _, _)
\* res after the first k tags
Res(self, k, d) ==
    IF k = 0 THEN <<>>
    ELSE Res(self, k - 1, d) \o Group(self, PushCategoryValues[k], d)

\* what to_server_file writes
to_server_file(self, d) ==
    JoinWith(Res(self, Len(PushCategoryValues), d), "\n")

\* what one line does to the loop of from_server_file (lines 398-429); st is
\* the loop's state: the registry, the category and the exception that ended
\* the loop.  No path of the lines names an article, so add never asks
\* is_dir.
DecodeLine(st, raw, status, push_list) ==
    LET deleted == StartsWith(raw, DeletedMark)
        line == IF deleted THEN Replace(raw, DeletedPrefix, <<>>) ELSE raw
        category == IF deleted THEN "Deleted" ELSE st.category
        fields == Split(line, "#")
    IN  IF st.raised # None \/ raw = <<>> THEN st
        ELSE IF StartsWith(line, <<"#">>)
        THEN [st EXCEPT !.category = from_string(Strip(Tail(line)))]
        ELSE IF \E k \in 1..Len(line) : line[k] = "#"
        THEN IF Len(fields) # 2 THEN [st EXCEPT !.raised = "ValueError"]
             ELSE [st EXCEPT !.results =
                      AddList(@, PushItem(Path(Strip(fields[1])), category,
                                          status, Strip(fields[2]), push_list,
                                          None, None), FALSE)]
        ELSE [st EXCEPT !.results =
                 AddList(@, PushItem(Path(Strip(line)), category, status,
                                     <<>>, push_list, None, None), FALSE)]

RECURSIVE Decode(_, _, _, _)
\* the loop after the first k lines
Decode(lines, k, status, push_list) ==
    IF k = 0 THEN [results |-> <<>>, category |-> "Other", raised |-> None]
    ELSE DecodeLine(Decode(lines, k - 1, status, push_list), lines[k],
                    status, push_list)

\* from_server_file: the loop over doc.read().split("\n")
from_server_file(text, status, push_list) ==
    LET lines == Split(text, "\n")
    IN  Decode(lines, Len(lines), status, push_list)

\* ------------------------------------------- writing and reading it

a_b == <<<<"a">>, <<"b">>>>
a_c == <<<<"a">>, <<"c">>>>
a_b_c == <<<<"a">>, <<"b">>, <<"c">>>>
a_b_d == <<<<"a">>, <<"b",".","d">>>>

\* the items of the registries that are written: those of
\* test_push_items_to_server_file, and others of their paths and of two paths
\* that sort between them
CodecItems ==
    { PushItem(a_b, "Upgrade", "In Dev / PR Merged", <<"4","5">>, None, None, None),
      PushItem(a_c, "New", "In Dev / PR Merged", <<"4","6">>, None, None, None),
      PushItem(a_c, "Deleted", "In Dev / PR Merged", <<>>, None, None, None),
      PushItem(a_c, "Blocked", "In Dev / PR Merged", <<"4","6">>, None, None, None),
      PushItem(a_b_c, "Upgrade", "In Dev / PR Merged", <<"4","7">>, None, None, None),
      PushItem(a_b_d, "Upgrade", "In Dev / PR Merged", <<"4","8">>, None, None, None) }

\* the registries that are written, as PushItems(list) makes them
CodecLists == UNION {[1..n -> CodecItems] : n \in 1..MaxMembers}

\* the checkouts: none of the paths exists, all do
CodecDisks == { {}, {a_b, a_c, a_b_c, a_b_d} }

\* the lines of the server files that are read without having been written
CodecLines ==
    { <<>>,
      <<"#"," ","N","e","w">>,
      <<"#"," ","D","e","l","e","t","e","d">>,
      <<"#"," ","f","o","o">>,
      <<"a","/","b"," ","#"," ","2">>,
      <<"a","/","c">>,
      <<"#"," ","D","e","l","e","t","e","d",":"," ","a","/","b"," ","#"," ","3">>,
      <<"a","/","b"," ","#"," ","x","#","y">> }

CodecTexts ==
    { JoinWith(ls, "\n") : ls \in UNION {[1..n -> CodecLines] : n \in 1..MaxLines} }

\* the status and the push list from_server_file is called with
CodecArgs ==
    { [status |-> "In Dev / PR Merged", push_list |-> "to_sandbox"],
      [status |-> None, push_list |-> None] }

\* a registry to write, or a server file to read
InitCodec ==
    /\ prev = <<>>
    /\ call = NoCall
    /\ board = <<>>
    /\ jam = NoJam
    /\ disk \in CodecDisks
    /\ \/ items \in CodecLists /\ doc = <<>>
       \/ items = <<>> /\ doc \in CodecTexts

\* self.to_server_file(doc): a member without a category ends it with an
\* AttributeError (line 360) before anything is written.  call.list keeps the
\* registry a round trip started from.
to_server_file_call ==
    /\ call.n < MaxCalls
    /\ LET fails == \E k \in 1..Len(items) : items[k].category = None
       IN  /\ doc' = IF fails THEN doc ELSE to_server_file(items, disk)
           /\ call' = [call EXCEPT !.op = "to_server_file", !.n = @ + 1,
                          !.text = doc,
                          !.list = IF call.round = 2 THEN @ ELSE items,
                          !.raised = IF fails THEN "AttributeError" ELSE None,
                          !.round = IF fails THEN 0
                                    ELSE IF call.round = 2 THEN 3 ELSE 1]
    /\ prev' = items
    /\ UNCHANGED <<items, disk, board, jam>>

\* PushItems.from_server_file(doc, status, push_list): the registry it
\* returns takes the place of the old one; no registry is returned when the
\* loop raises
from_server_file_call(status, push_list) ==
    /\ call.n < MaxCalls
    /\ LET st == from_server_file(doc, status, push_list)
       IN  /\ items' = IF st.raised = None THEN st.results ELSE items
           /\ call' = [call EXCEPT !.op = "from_server_file", !.n = @ + 1,
                          !.text = doc, !.raised = st.raised,
                          !.status = status, !.push_list = push_list,
                          !.round = IF st.raised = None /\ call.round \in {1, 3}
                                    THEN 2 ELSE 0]
    /\ prev' = items
    /\ UNCHANGED <<doc, disk, board, jam>>

NextCodec ==
    \/ to_server_file_call
    \/ \E a \in CodecArgs : from_server_file_call(a.status, a.push_list)

SpecCodec == InitCodec /\ [][NextCodec]_vars

\* ------------------------------------------------------ the push list

\* GitHubClient._run_graphql(mutation): the board is sent the request to put
\* the item on the list of that option; ok tells whether it went through,
\* the call raises when it did not
run_graphql(b, id_, option, ok) ==
    Append(b, [id_ |-> id_, option |-> option, ok |-> ok])

\* the push list of an option of LIST_OPTION_IDS (lines 236-241); the three
\* options have three different ids in the configuration
ListOf_sandbox(option) == "to_sandbox"

ListOf(option) ==
    CASE option = "TO_SANDBOX" -> "to_sandbox"
      [] option = "TO_PRODUCTION" -> "to_production"
      [] option = "BLOCKED" -> "blocked"

\* self.set_pushlist(listt) on the item: the request first, the field after
\* it, and only when the request went through
SetPushlist_early(option, ok) ==
    /\ items' = [items EXCEPT ![1].push_list = ListOf(option)]
    /\ board' = run_graphql(board, items[1].id_, option, ok)

SetPushlist(option, ok) ==
    /\ items' = IF ok THEN [items EXCEPT ![1].push_list = ListOf(option)] ELSE items
    /\ board' = run_graphql(board, items[1].id_, option, ok)

\* the option bump_pushlist asks for: none at to_production, and a
\* ValueError for any other list
BumpOption_blocked(push_list) ==
    CASE push_list = None -> "TO_SANDBOX"
      [] push_list = "to_sandbox" -> "TO_PRODUCTION"
      [] push_list = "to_production" -> None
      [] OTHER -> "TO_SANDBOX"

BumpOption(push_list) ==
    CASE push_list = None -> "TO_SANDBOX"
      [] push_list = "to_sandbox" -> "TO_PRODUCTION"
      [] push_list = "to_production" -> None
      [] OTHER -> "ValueError"

\* the items whose list is moved: one of the board, on any list or on none
ListItems ==
    { PushItem(<<ofl, mp>>, "New", "In Dev / PR Merged", <<"4","5">>, l, None, "PVTI_1") :
          l \in {None, "to_sandbox", "to_production", "blocked"} }

InitList ==
    /\ \E i \in ListItems : items = <<i>>
    /\ prev = <<>>
    /\ call = NoCall
    /\ doc = <<>>
    /\ disk = {}
    /\ board = <<>>
    /\ jam = NoJam

\* item.set_pushlist(listt)
set_pushlist(option, ok) ==
    /\ Len(board) < MaxWrites
    /\ SetPushlist(option, ok)
    /\ call' = [call EXCEPT !.op = "set_pushlist",
                            !.raised = IF ok THEN None ELSE "Exception"]
    /\ prev' = items
    /\ UNCHANGED <<doc, disk, jam>>

\* item.block()
block(ok) ==
    /\ Len(board) < MaxWrites
    /\ SetPushlist("BLOCKED", ok)
    /\ call' = [call EXCEPT !.op = "block",
                            !.raised = IF ok THEN None ELSE "Exception"]
    /\ prev' = items
    /\ UNCHANGED <<doc, disk, jam>>

\* bump_pushlist that asks for to_sandbox whatever the list is
Bump_sandbox(ok) ==
    /\ SetPushlist("TO_SANDBOX", ok)
    /\ call' = [call EXCEPT !.op = "bump_pushlist",
                            !.raised = IF ok THEN None ELSE "Exception"]
    /\ prev' = items
    /\ UNCHANGED <<doc, disk, jam>>

\* the body of bump_pushlist: lines 247-255
Bump(ok) ==
    /\ LET option == BumpOption(items[1].push_list)
       IN  IF option \in {None, "ValueError"}
           THEN /\ ok
                /\ call' = [call EXCEPT !.op = "bump_pushlist", !.raised = option]
                /\ UNCHANGED <<items, board>>
           ELSE /\ SetPushlist(option, ok)
                /\ call' = [call EXCEPT !.op = "bump_pushlist",
                               !.raised = IF ok THEN None ELSE "Exception"]
    /\ prev' = items
    /\ UNCHANGED <<doc, disk, jam>>

\* item.bump_pushlist()
bump_pushlist(ok) ==
    /\ Len(board) < MaxWrites
    /\ Bump(ok)

NextList ==
    \E ok \in BOOLEAN :
        \/ \E option \in {"TO_SANDBOX", "TO_PRODUCTION", "BLOCKED"} :
              set_pushlist(option, ok)
        \/ block(ok)
        \/ bump_pushlist(ok)

SpecList == InitList /\ [][NextList]_vars

\* the items that are bumped again and again: items of the board with
\* different ids, on any list or on none
BumpItems ==
    { PushItem(<<ofl, mp>>, "New", "In Dev / PR Merged", <<"4","5">>, l, None, id) :
          l \in {None, "to_sandbox", "to_production", "blocked"},
          id \in {"PVTI_1", "PVTI_2", "PVTI_3"} }

InitBump ==
    /\ \E i \in BumpItems : items = <<i>>
    /\ prev = <<>>
    /\ call = NoCall
    /\ doc = <<>>
    /\ disk = {}
    /\ board = <<>>
    /\ jam = NoJam

\* item.bump_pushlist(), called again after the last call; no more than
\* MaxWrites of the requests fail
bump_again(ok) ==
    /\ ok \/ Len(SelectSeq(board, LAMBDA w : ~w.ok)) < MaxWrites
    /\ Bump(ok)

NextBump == \E ok \in BOOLEAN : bump_again(ok)

SpecBump == InitBump /\ [][NextBump]_vars

\* the calls go on, and a request that is made again and again goes through
SpecBumpFair == SpecBump /\ WF_vars(bump_again(TRUE))

\* ------------------------------------------------------------ union

RECURSIVE AddAll(_, _, _)
\* for i in other: new.add(i), after the first k items of other; none of
\* them names an article, so add never asks is_dir
AddAll(new, other, k) ==
    IF k = 0 THEN new
    ELSE AddList(AddAll(new, other, k - 1), other[k], FALSE)

\* self + other as if self were added item by item to an empty registry
add_replayed(self, other) ==
    AddAll(AddAll(<<>>, self, Len(self)), other, Len(other))

\* self + other: a deep copy of self, and every item of other added to it
__add__(self, other) == AddAll(self, other, Len(other))

\* [i for i in self if i not in other]: in is decided by ==
Subbed(self, other) ==
    SelectSeq(self, LAMBDA i : ~\E k \in 1..Len(other) : ItemEq(i, other[k]))

\* self - other without the adds: the list of line 268 as it is
sub_filtered(self, other) == Subbed(self, other)

\* self - other: the items of self that are not in other, added one by one
\* to an empty registry
__sub__(self, other) ==
    AddAll(<<>>, Subbed(self, other), Len(Subbed(self, other)))

\* an item after add(item): add assigns item.path (lines 294-310) of the
\* object it is given, which its caller still holds
Rewritten(item) ==
    [item EXCEPT !.path = IF AddRule(item.path) = "skip" THEN item.path
                          ELSE AddPath(item.path, FALSE)]

\* the items of a list after add was called with each of those that are
\* in added
RewrittenIn(l, added) ==
    [k \in 1..Len(l) |->
        IF \E j \in 1..Len(added) : added[j] = l[k] THEN Rewritten(l[k]) ELSE l[k]]

\* the items of the registries that are united
UnionItems ==
    {[f EXCEPT !.path = p] :
        p \in { <<ofl, mp>>, <<ofl, mp, a_ttf>>, <<ofl, mp, sub>> }, f \in Profiles}

\* the registries that are united, as PushItems(list) makes them
UnionLists == UNION {[1..n -> UnionItems] : n \in 0..MaxOperand}

\* self in items, other in call.list
InitUnion ==
    /\ items \in UnionLists
    /\ \E other \in UnionLists : call = [NoCall EXCEPT !.list = other]
    /\ prev = <<>>
    /\ doc = <<>>
    /\ disk = {}
    /\ board = <<>>
    /\ jam = NoJam

\* self + other: the new registry takes the place of self, prev keeps self;
\* the items of other have been through add, self was copied
union ==
    /\ call.op = "new"
    /\ items' = __add__(items, call.list)
    /\ prev' = items
    /\ call' = [call EXCEPT !.op = "__add__", !.left = items,
                            !.right = RewrittenIn(call.list, call.list)]
    /\ UNCHANGED <<doc, disk, board, jam>>

\* self - other: the new registry takes the place of self, prev keeps self;
\* the items of self that were added have been through add
difference ==
    /\ call.op = "new"
    /\ items' = __sub__(items, call.list)
    /\ prev' = items
    /\ call' = [call EXCEPT !.op = "__sub__",
                            !.left = RewrittenIn(items, Subbed(items, call.list)),
                            !.right = call.list]
    /\ UNCHANGED <<doc, disk, board, jam>>

NextUnion == union \/ difference

SpecUnion == InitUnion /\ [][NextUnion]_vars

\* ---------------------------------------------------- missing_paths

\* the path missing_paths looks for: lines 346-348
MissingPath(item) ==
    IF HasPart(item.path, lang) \/ HasPart(item.path, axisregistry)
    THEN google_path_to_repo_path(item.path)
    ELSE item.path

\* missing_paths that does not pass over the Deleted members
missing_paths_deleted(self, d) ==
    LET gone == SelectSeq(self, LAMBDA i : MissingPath(i) \notin d)
    IN  [k \in 1..Len(gone) |-> MissingPath(gone[k])]

\* self.missing_paths(), in a checkout with the paths of d
missing_paths(self, d) ==
    LET gone == SelectSeq(self, LAMBDA i : i.category # "Deleted" /\ MissingPath(i) \notin d)
    IN  [k \in 1..Len(gone) |-> MissingPath(gone[k])]

\* the members of the registries that are asked: a family, and a file of
\* each of the two data packages, each as a live and as a Deleted member
MissingItems ==
    { PushItem(p, c, "In Dev / PR Merged", <<"4","5">>, None, None, None) :
        p \in { <<ofl, mp>>, <<axisregistry, bounce_textproto>>,
                <<lang, bounce_textproto>> },
        c \in {"New", "Deleted"} }

MissingLists == UNION {[1..n -> MissingItems] : n \in 0..MaxMembers}

\* the checkouts: any of the three paths in the form of the checkout, and
\* the axisregistry file in the form of the registry
MissingDisks ==
    SUBSET { <<ofl, mp>>,
             <<axisregistry, Lib, axisregistry, data, bounce_textproto>>,
             <<lang, Lib, gflanguages, data, bounce_textproto>>,
             <<axisregistry, bounce_textproto>> }

InitMissing ==
    /\ items \in MissingLists
    /\ disk \in MissingDisks
    /\ prev = <<>>
    /\ call = NoCall
    /\ doc = <<>>
    /\ board = <<>>
    /\ jam = NoJam

\* self.missing_paths()
missing_paths_call ==
    /\ call.op = "new"
    /\ call' = [call EXCEPT !.op = "missing_paths", !.res = missing_paths(items, disk)]
    /\ prev' = items
    /\ UNCHANGED <<items, doc, disk, board, jam>>

NextMissing == missing_paths_call

SpecMissing == InitMissing /\ [][NextMissing]_vars

\* ------------------------------------------------- from_traffic_jam

\* an item of the board as the query of lines 103-150 returns it.  The
\* fields of content are those of a pull request: the content of an item
\* of another type has none of them, and they are left empty here
BoardItem(id, type, status, list, url, labels, files, merged) ==
    [id |-> id, type |-> type, status |-> status, list |-> list,
     content |-> [url |-> url, labels |-> labels, files |-> files, merged |-> merged]]

\* the values of PushStatus and of PushList
PushStatusValues == {"PR GF", "In Dev / PR Merged", "In Sandbox", "Live"}

PushListValues == {"to_sandbox", "to_production", "blocked"}

\* PushStatus.from_string, PushList.from_string: the member of that value
StatusOf(name) == IF name \in PushStatusValues THEN name ELSE None

PushListOf(name) == IF name \in PushListValues THEN name ELSE None

\* the category of the labels of a pull request: lines 483-500
CategoryOf(labels) ==
    CASE "--- blocked" \in labels -> "Blocked"
      [] "I Font Upgrade" \in labels \/ "I Small Fix" \in labels -> "Upgrade"
      [] "I New Font" \in labels -> "New"
      [] "I Description/Metadata/OFL" \in labels -> "Metadata / Description / License"
      [] "I Designer profile" \in labels -> "Designer profile"
      [] "I Knowledge" \in labels -> "Knowledge"
      [] "I Axis Registry" \in labels -> "Axis Registry"
      [] "I Lang" \in labels -> "Sample texts"
      [] OTHER -> "Other"

\* one page of the board after a cursor (the cursor of an item is its place
\* on the board, the empty cursor is 0): its nodes, the cursor of its last
\* edge, and the count of all items
Page(service, after) ==
    LET last == IF after + PageSize < Len(service) THEN after + PageSize
                ELSE Len(service)
    IN  [answer |-> "data", nodes |-> SubSeq(service, after + 1, last),
         cursor |-> last, totalCount |-> Len(service)]

RECURSIVE SortByUrl(_)
\* board_items.sort(key=lambda k: k["content"]["url"]): line 460
SortByUrl(l) ==
    IF l = <<>> THEN <<>>
    ELSE LET k == CHOOSE k \in 1..Len(l) :
                      /\ \A j \in 1..Len(l) : ~StrLess(l[j].content.url, l[k].content.url)
                      /\ \A j \in 1..(k - 1) : StrLess(l[k].content.url, l[j].content.url)
         IN  <<l[k]>> \o SortByUrl(SubSeq(l, 1, k - 1) \o SubSeq(l, k + 1, Len(l)))

\* the content of the item has the key
HasKey(item, key) == item.type = "PULL_REQUEST"

\* the items lines 463-503 hand to add for one item of the board
ItemsOf(item) ==
    IF ~HasKey(item, "labels") THEN <<>>
    ELSE [k \in 1..Len(item.content.files) |->
            PushItem(item.content.files[k], CategoryOf(item.content.labels),
                     IF item.status # None THEN StatusOf(item.status) ELSE None,
                     item.content.url,
                     IF item.list # None THEN PushListOf(item.list) ELSE None,
                     item.content.merged, item.id)]

RECURSIVE Results(_, _)
\* results after the first k items of the sorted board: lines 462-504
Results(sorted, k) ==
    IF k = 0 THEN <<>>
    ELSE LET added == ItemsOf(sorted[k])
         IN  AddAll(Results(sorted, k - 1), added, Len(added))

ten == <<"1","0">>
nine == <<"9">>
two == <<"2">>

\* the items of the boards: two pull requests that change ofl/mp, one of
\* them with two files, a blocked pull request, and a draft issue
JamItems ==
    { BoardItem("PVTI_1", "PULL_REQUEST", "In Dev / PR Merged", None, ten,
                {"I New Font"}, << <<ofl, mp, a_ttf>>, <<ofl, mp, b_ttf>> >>, "True"),
      BoardItem("PVTI_2", "PULL_REQUEST", "PR GF", "to_sandbox", nine,
                {"I Small Fix"}, << <<ofl, mp, a_ttf>> >>, "False"),
      BoardItem("PVTI_3", "PULL_REQUEST", "In Sandbox", "to_production", two,
                {"--- blocked", "I New Font"}, << <<apache, ns, a_ttf>> >>, "True"),
      BoardItem("PVTI_4", "DRAFT_ISSUE", "PR GF", None, <<>>, {}, <<>>, None) }

\* the boards: the items of a board are different items
JamBoards ==
    { b \in UNION {[1..n -> JamItems] : n \in 0..MaxBoard} :
        \A j, k \in 1..Len(b) : j # k => b[j] # b[k] }

InitJam ==
    /\ items = <<>>
    /\ prev = <<>>
    /\ call = NoCall
    /\ doc = <<>>
    /\ disk = {}
    /\ board = <<>>
    /\ \E b \in JamBoards : jam = [NoJam EXCEPT !.pc = "first", !.service = b]

\* the page requests that have failed
Failures == Len(SelectSeq(jam.requests, LAMBDA r : ~r.ok))

\* lines 438-446: the first page is asked for outside of any try
first_page(ok) ==
    /\ jam.pc = "first"
    /\ LET page == Page(jam.service, 0)
           asked == Append(jam.requests, [after |-> 0, ok |-> ok])
       IN  jam' = IF ~ok
                  THEN [jam EXCEPT !.pc = "raised", !.raised = "Exception",
                                   !.requests = asked]
                  ELSE IF page.nodes = <<>>
                  THEN [jam EXCEPT !.pc = "raised", !.raised = "IndexError",
                                   !.requests = asked, !.data = page,
                                   !.board_items = page.nodes]
                  ELSE [jam EXCEPT !.pc = "while", !.requests = asked,
                                   !.data = page, !.board_items = page.nodes,
                                   !.last_item = page.cursor,
                                   !.item_count = page.totalCount]
    /\ UNCHANGED <<items, prev, call, doc, disk, board>>

\* the test of a loop that is left after the first page
loop_test_once ==
    /\ jam.pc = "while"
    /\ jam' = [jam EXCEPT !.pc = "sort"]
    /\ UNCHANGED <<items, prev, call, doc, disk, board>>

\* line 447-448: while len(board_items) < item_count
loop_test ==
    /\ jam.pc = "while"
    /\ jam' = IF Len(jam.board_items) < jam.item_count
              THEN [jam EXCEPT !.pc = "fetch", !.data = NoData]
              ELSE [jam EXCEPT !.pc = "sort"]
    /\ UNCHANGED <<items, prev, call, doc, disk, board>>

\* lines 449-453: one turn of while not data
fetch(ok) ==
    /\ jam.pc = "fetch"
    /\ ok \/ Failures < MaxFailures
    /\ jam' = [jam EXCEPT
                 !.requests = Append(@, [after |-> jam.last_item, ok |-> ok]),
                 !.data = IF ok THEN Page(jam.service, jam.last_item) ELSE NoData,
                 !.pc = IF ok THEN "ingest" ELSE "fetch"]
    /\ UNCHANGED <<items, prev, call, doc, disk, board>>

\* lines 454-458: the page is taken in and the cursor moved
ingest ==
    /\ jam.pc = "ingest"
    /\ jam' = IF jam.data.nodes = <<>>
              THEN [jam EXCEPT !.pc = "raised", !.raised = "IndexError"]
              ELSE [jam EXCEPT !.pc = "while",
                               !.board_items = @ \o jam.data.nodes,
                               !.last_item = jam.data.cursor]
    /\ UNCHANGED <<items, prev, call, doc, disk, board>>

\* lines 459-504: the items are sorted and handed to add
replay ==
    /\ jam.pc = "sort"
    /\ IF \E k \in 1..Len(jam.board_items) : ~HasKey(jam.board_items[k], "url")
       THEN /\ jam' = [jam EXCEPT !.pc = "raised", !.raised = "KeyError"]
            /\ call' = [call EXCEPT !.op = "from_traffic_jam", !.raised = "KeyError"]
            /\ UNCHANGED items
       ELSE LET sorted == SortByUrl(jam.board_items)
            IN  /\ jam' = [jam EXCEPT !.pc = "done", !.board_items = sorted]
                /\ call' = [call EXCEPT !.op = "from_traffic_jam"]
                /\ items' = Results(sorted, Len(sorted))
    /\ prev' = items
    /\ UNCHANGED <<doc, disk, board>>

NextJam ==
    \/ \E ok \in BOOLEAN : first_page(ok)
    \/ loop_test
    \/ \E ok \in BOOLEAN : fetch(ok)
    \/ ingest
    \/ replay

SpecJam == InitJam /\ [][NextJam]_vars

\* the loop of lines 447-458 runs on, and the service answers a page
\* request that is made again and again
SpecJamFair ==
    /\ SpecJam
    /\ WF_vars(loop_test)
    /\ WF_vars(fetch(TRUE))
    /\ WF_vars(ingest)

\* ------------------------------------------- add to a made registry

\* the members of the registries the constructor is given: a root, two
\* families and a file of a family
CtorItems ==
    { PushItem(p, "New", "In Dev / PR Merged", <<"4","5">>, None, None, None) :
        p \in { <<ofl>>, <<ofl, mp>>, <<apache, ns>>, <<ofl, mp, a_ttf>> } }

\* PushItems([...]): the list is taken as it is
CtorLists == UNION {[1..n -> CtorItems] : n \in 0..MaxOperand}

InitCtor ==
    /\ items \in CtorLists
    /\ prev = <<>>
    /\ call = NoCall
    /\ doc = <<>>
    /\ disk = {}
    /\ board = <<>>
    /\ jam = NoJam

NextCtor == \E item \in Inputs : \E is_dir \in IsDir(item.path) : add(item, is_dir)

SpecCtor == InitCtor /\ [][NextCtor]_vars

\* ------------------------------------------------- notions of the claims

\* p is a strict ancestor directory of q; the empty path "." is not counted
IsAncestor(p, q) == 0 < Len(p) /\ Len(p) < Len(q) /\ SubSeq(q, 1, Len(p)) = p

\* the paths of a list, in order
PathsOf(s) == [k \in 1..Len(s) |-> s[k].path]

\* the members of s at path p
At(s, p) == {k \in 1..Len(s) : s[k].path = p}

\* the incoming item as add is meant to store it
Stored == [call.item EXCEPT !.path = call.path]

\* a and b differ in every field but path
AllOtherFieldsDiffer(a, b) ==
    /\ a.category # b.category /\ a.status # b.status /\ a.url # b.url
    /\ a.push_list # b.push_list /\ a.merged # b.merged /\ a.id_ # b.id_

\* the position of the first part of p that is one of roots, 0 without one
FirstPart(p, roots) ==
    LET hits == {k \in 1..Len(p) : p[k] \in roots}
    IN  IF hits = {} THEN 0 ELSE CHOOSE k \in hits : \A j \in hits : k <= j

\* ----------------------------------------------------------------- claims

\* C1: after every add call, in any sequence of add calls from the empty
\* registry, no two members share a path and no member's path is a strict
\* ancestor directory of another member's path.
C1_NoDuplicateNoAncestor ==
    \A j, k \in 1..Len(items) :
        j # k => /\ items[j].path # items[k].path
                 /\ ~IsAncestor(items[j].path, items[k].path)

C3_EqByFields ==
    call.op = "eq" =>
        (call.eq <=> /\ call.item.path = call.other.path
                     /\ call.item.category = call.other.category
                     /\ call.item.status = call.other.status
                     /\ call.item.url = call.other.url)

C5_Dedup ==
    /\ call.set # {} =>
           Cardinality(call.set)
               = Cardinality({call.list[k].path : k \in 1..Len(call.list)})
    /\ (/\ call.n >= 1 /\ call.added
        /\ \A k \in 1..call.n : call.list[k].path = call.list[1].path)
       => Len(items) = 1

\* C5's case: three items of one path and different fields were added, one
\* after the other, and collected in a set: one member, one element.
C5_Witness ==
    /\ call.n = 3 /\ call.added /\ call.set # {}
    /\ \A k \in 1..3 : call.list[k].path = call.list[1].path
    /\ AllOtherFieldsDiffer(call.list[1], call.list[3])
    /\ Len(items) = 1 /\ Cardinality(call.set) = 1

\* C6: for an ancestor/descendant pair of paths, adding the two items to an
\* empty registry in either order yields a registry that holds only the
\* descendant.  Stated for the second add of a pair of paths that add does
\* not rewrite, the first of them being the member of the registry.
C6_OnlyDescendant ==
    (/\ call.op = "add" /\ Len(prev) = 1
     /\ call.path = call.item.path
     /\ \/ IsAncestor(prev[1].path, call.item.path)
        \/ IsAncestor(call.item.path, prev[1].path))
    => PathsOf(items) =
           << IF IsAncestor(prev[1].path, call.item.path)
              THEN call.item.path ELSE prev[1].path >>

\* C7: add of a path with a family-root part (ofl, ufl, apache, designers)
\* and a family file suffix, and no article/static part, stores the item at
\* the immediate child-of-root directory, however deep the file sits below it.
C7_FamilyDirectory ==
    (/\ call.op = "add"
     /\ ~HasPart(call.item.path, article) /\ ~HasPart(call.item.path, static)
     /\ Suffix(call.item.path) \in FAMILY_FILE_SUFFIXES
     /\ FirstPart(call.item.path, FamilyRoots) # 0
     /\ FirstPart(call.item.path, FamilyRoots) + 1 < Len(call.item.path))
    => /\ call.added
       /\ items[Len(items)].path =
              SubSeq(call.item.path, 1,
                     FirstPart(call.item.path, FamilyRoots) + 1)

\* C8: add of a path with a part article or static truncates it to the
\* containing release directory: the directory that holds the article/static
\* part.  Stated for a file system that has a directory where the path names
\* none with a suffix, and a file where it names one.
C8_ReleaseDirectory ==
    (/\ call.op = "add" /\ FirstPart(call.item.path, {article, static}) # 0
     /\ call.is_dir = (Suffix(call.item.path) = <<>>))
    => call.path =
           SubSeq(call.item.path, 1,
                  FirstPart(call.item.path, {article, static}) - 1)

\* C9: add of a path with a lang or axisregistry part, no article/static or
\* family-root rule applying first: a .textproto file is stored at the
\* repo-path-to-google-path rewrite of its path
\* (axisregistry/Lib/axisregistry/data/bounce.textproto at
\* axisregistry/bounce.textproto); with any other suffix the item is
\* discarded and the registry is left unchanged.
C9_DataFiles ==
    (/\ call.op = "add"
     /\ \E d \in {lang, axisregistry} : HasPart(call.item.path, d)
     /\ ~HasPart(call.item.path, article) /\ ~HasPart(call.item.path, static)
     /\ ~(/\ \E d \in {ofl, ufl, apache, designers} : HasPart(call.item.path, d)
          /\ Suffix(call.item.path) \in FAMILY_FILE_SUFFIXES))
    => IF Suffix(call.item.path) = textproto
       THEN /\ call.added
            /\ items[Len(items)] =
                   [call.item EXCEPT
                        !.path = repo_path_to_google_path(call.item.path)]
            /\ (call.item.path =
                    <<axisregistry, Lib, axisregistry, data, bounce_textproto>>
                => items[Len(items)].path = <<axisregistry, bounce_textproto>>)
       ELSE ~call.added /\ items = prev

\* C9's case: next to a member, the .textproto file has been stored at its
\* rewritten path, or its sibling .pb file has been discarded.
C9_Witness ==
    /\ call.op = "add" /\ Len(prev) >= 1
    /\ \/ /\ call.item.path =
                 <<axisregistry, Lib, axisregistry, data, bounce_textproto>>
          /\ items[Len(items)].path = <<axisregistry, bounce_textproto>>
          /\ \E k \in 1..Len(prev) : prev[k].path # call.path
       \/ /\ call.item.path =
                 <<axisregistry, Lib, axisregistry, data, bounce_pb>>
          /\ items = prev

Lines(text) == Split(text, "\n")

\* "# <category display name>"
Header(c) == <<"#"," ">> \o Chars(c)

IsHeader(l) == \E k \in 1..Len(PushCategoryValues) : l = Header(PushCategoryValues[k])

\* the data lines of a list of lines
DataLines(ls) == {k \in 1..Len(ls) : ls[k] # <<>> /\ ~IsHeader(ls[k])}

\* the header of the group line k stands in, <<>> before the first header
HeaderOf(ls, k) ==
    LET hs == {j \in 1..k : IsHeader(ls[j])}
    IN  IF hs = {} THEN <<>> ELSE ls[CHOOSE j \in hs : \A i \in hs : i <= j]

\* what a server file holds: its member lines (path, deleted mark and url),
\* each with the category of its group
Written(text) ==
    LET ls == Lines(text) IN {<<HeaderOf(ls, k), ls[k]>> : k \in DataLines(ls)}

\* C11: a registry that is not empty and has no Blocked member is written,
\* read and written again: the second file holds the same members, with the
\* same categories and urls, as the first.
C11_RoundTrip ==
    (/\ call.round = 3
     /\ \A k \in 1..Len(call.list) : call.list[k].category # "Blocked")
    => Written(doc) = Written(call.text)

\* the categories to_server_file has a group for: those with a member, but
\* not Blocked
Grouped(self) ==
    SelectSeq(PushCategoryValues,
              LAMBDA c : c # "Blocked" /\ \E k \in 1..Len(self) : self[k].category = c)

\* the paths of the members of a category
PathsIn(self, c) == {self[k].path : k \in {j \in 1..Len(self) : self[j].category = c}}

RECURSIVE Sum(_, _)
\* f[1] + ... + f[k]
Sum(f, k) == IF k = 0 THEN 0 ELSE Sum(f, k - 1) + f[k]

\* C12: the file has one header per category with a member, in the order of
\* the declaration of PushCategory, an empty line ends every group, and
\* neither a group nor a line is written for Blocked: the member lines are as
\* many as the paths of the other categories.
C12_Groups ==
    (call.op = "to_server_file" /\ call.raised = None) =>
        LET ls == Lines(doc)
            cs == Grouped(items)
        IN  /\ SelectSeq(ls, IsHeader) = [k \in 1..Len(cs) |-> Header(cs[k])]
            /\ \A k \in 2..Len(ls) : IsHeader(ls[k]) => ls[k - 1] = <<>>
            /\ cs # <<>> => ls[Len(ls)] = <<>>
            /\ \A k \in DataLines(ls) : HeaderOf(ls, k) \in {Header(cs[j]) : j \in 1..Len(cs)}
            /\ Cardinality(DataLines(ls))
                 = Sum([k \in 1..Len(cs) |-> Cardinality(PathsIn(items, cs[k]))], Len(cs))

\* a registry of a Blocked member and members of two categories, listed
\* against the order of the declaration, has been written
C12_Witness ==
    /\ call.op = "to_server_file"
    /\ call.raised = None
    /\ Len(items) = 3
    /\ items[1].category = "Upgrade"
    /\ items[2].category = "Blocked"
    /\ items[3].category = "New"
    /\ SelectSeq(Lines(doc), IsHeader) = <<Header("New"), Header("Upgrade")>>

\* member k is the first of its category with its path
FirstOfPath(self, k) ==
    \A j \in 1..(k - 1) :
        ~(self[j].category = self[k].category /\ self[j].path = self[k].path)

\* "<path> # <url>"
PlainLine(i) == PathStr(i.path) \o <<" ","#"," ">> \o i.url

\* "# Deleted: <path> # <url>", "# Deleted: <path>" without a url
DeletedLine(i) ==
    DeletedPrefix \o PathStr(i.path)
        \o (IF i.url = <<>> THEN <<>> ELSE <<" ","#"," ">> \o i.url)

\* the registry and the file of test_push_items_to_server_file
TestRegistry ==
    << PushItem(a_b, "Upgrade", "In Dev / PR Merged", <<"4","5">>, None, None, None),
       PushItem(a_c, "New", "In Dev / PR Merged", <<"4","6">>, None, None, None) >>

TestFile ==
    JoinWith(<< Header("New"), <<"a","/","c"," ","#"," ","4","6">>, <<>>,
                Header("Upgrade"), <<"a","/","b"," ","#"," ","4","5">>, <<>> >>, "\n")

\* C13: a member of category Deleted is written as "# Deleted: <path> # <url>"
\* ("# Deleted: <path>" without a url), a member of another category that has
\* a url as "<path> # <url>"; the registry of the test is written as the file
\* of the test.
C13_LineForms ==
    (call.op = "to_server_file" /\ call.raised = None) =>
        /\ \A k \in 1..Len(items) :
              LET i == items[k]
                  written == {Lines(doc)[j] : j \in 1..Len(Lines(doc))}
              IN  FirstOfPath(items, k) =>
                    /\ i.category = "Deleted" => DeletedLine(i) \in written
                    /\ (i.category \notin {"Deleted", "Blocked"} /\ i.url # <<>>)
                          => PlainLine(i) \in written
        /\ items = TestRegistry => doc = TestFile

\* the path a member line is written with
LinePath(l) ==
    Strip(Split(IF StartsWith(l, DeletedPrefix)
                THEN SubSeq(l, Len(DeletedPrefix) + 1, Len(l)) ELSE l, "#")[1])

\* the data lines of the group of category c
GroupLines(ls, c) == {k \in DataLines(ls) : HeaderOf(ls, k) = Header(c)}

\* every group holds the paths of the members of its category
C14_GroupPaths(ls) ==
    \A n \in 1..Len(PushCategoryValues) :
        LET c == PushCategoryValues[n]
        IN  c # "Blocked" =>
              {LinePath(ls[k]) : k \in GroupLines(ls, c)}
                  = {PathStr(q) : q \in PathsIn(items, c)}

\* C14 as stated: every group holds the paths of its members, each once, in
\* the order of their forward-slash strings.
C14_SortedByString ==
    (call.op = "to_server_file" /\ call.raised = None) =>
        LET ls == Lines(doc)
        IN  /\ C14_GroupPaths(ls)
            /\ \A k, j \in DataLines(ls) :
                  (k < j /\ HeaderOf(ls, k) = HeaderOf(ls, j))
                      => StrLess(LinePath(ls[k]), LinePath(ls[j]))

\* a comes before b when the paths are compared part by part: at the first
\* part that differs a has the lesser one, or a has no more parts
PartsBefore(a, b) ==
    \E n \in 1..Len(b) :
        /\ n - 1 <= Len(a)
        /\ SubSeq(a, 1, n - 1) = SubSeq(b, 1, n - 1)
        /\ (Len(a) = n - 1 \/ StrLess(a[n], b[n]))

\* C14, amended: every group holds the paths of its members, each once, in
\* the order of the paths compared part by part.
C14_SortedByParts ==
    (call.op = "to_server_file" /\ call.raised = None) =>
        LET ls == Lines(doc)
        IN  /\ C14_GroupPaths(ls)
            /\ \A k, j \in DataLines(ls) :
                  (k < j /\ HeaderOf(ls, k) = HeaderOf(ls, j))
                      => PartsBefore(Path(LinePath(ls[k])), Path(LinePath(ls[j])))

\* a registry that lists a/b.d, a/b/c and a/b.d again in one category has
\* been written: a/b/c stands first, a/b.d follows once
C14_Witness ==
    /\ call.op = "to_server_file"
    /\ call.raised = None
    /\ Len(items) = 3
    /\ items[1].path = a_b_d
    /\ items[2].path = a_b_c
    /\ items[3] = items[1]
    /\ items[1].category = items[2].category
    /\ LET ls == Lines(doc)
       IN  /\ Cardinality(DataLines(ls)) = 2
           /\ LinePath(ls[2]) = PathStr(a_b_c)
           /\ LinePath(ls[3]) = PathStr(a_b_d)

\* a data line: not empty, and without a leading "#" unless that is the
\* "# Deleted: " prefix
IsData(l) == l # <<>> /\ (l[1] # "#" \/ StartsWith(l, DeletedPrefix))

\* the category a header line names, None when it names none
Named(l) ==
    LET cs == {c \in {PushCategoryValues[n] : n \in 1..Len(PushCategoryValues)} :
                   Strip(Tail(l)) = Chars(c)}
    IN  IF cs = {} THEN None ELSE CHOOSE c \in cs : TRUE

\* the category of the last header line before line k that names a known
\* category, Other without one
KnownCategory(ls, k) ==
    LET hs == {j \in 1..(k - 1) : ls[j] # <<>> /\ ~IsData(ls[j]) /\ Named(ls[j]) # None}
    IN  IF hs = {} THEN "Other" ELSE Named(ls[CHOOSE j \in hs : \A i \in hs : i <= j])

\* the item C15 has data line k decoded into
ClaimedItem(ls, k, status, push_list) ==
    LET l == ls[k]
        deleted == StartsWith(l, DeletedPrefix)
        body == IF deleted THEN SubSeq(l, Len(DeletedPrefix) + 1, Len(l)) ELSE l
        fields == Split(body, "#")
    IN  PushItem(Path(Strip(fields[1])),
                 IF deleted THEN "Deleted" ELSE KnownCategory(ls, k),
                 status,
                 IF Len(fields) = 1 THEN <<>> ELSE Strip(fields[2]),
                 push_list, None, None)

RECURSIVE Claimed(_, _, _, _)
\* the registry C15 has the first k lines decoded into
Claimed(ls, k, status, push_list) ==
    IF k = 0 THEN <<>>
    ELSE IF IsData(ls[k])
         THEN AddList(Claimed(ls, k - 1, status, push_list),
                      ClaimedItem(ls, k, status, push_list), FALSE)
         ELSE Claimed(ls, k - 1, status, push_list)

\* C15: from_server_file returns the registry that add makes of the data
\* lines in their order, each with the category of the last known header
\* before it (Other without one), or Deleted when the line itself has the
\* "# Deleted: " prefix, with the status and the push list of the caller, and
\* with an empty url when the line has no "#".
C15_Decoded ==
    (call.op = "from_server_file" /\ call.raised = None) =>
        items = Claimed(Lines(doc), Len(Lines(doc)), call.status, call.push_list)

\* what C15 says does hold of the files whose header lines all name a
\* category
C15_WithKnownHeaders ==
    (/\ call.op = "from_server_file"
     /\ call.raised = None
     /\ \A k \in 1..Len(Lines(doc)) :
           (Lines(doc)[k] # <<>> /\ ~IsData(Lines(doc)[k])) => Named(Lines(doc)[k]) # None)
    => items = Claimed(Lines(doc), Len(Lines(doc)), call.status, call.push_list)

\* C16: from_server_file rejects no line: whatever the lines are, a line
\* with more than one "#" among them, the call ends without an exception.
C16_NeverRaises ==
    call.op = "from_server_file" => call.raised = None

\* ------------------------------------------- notions of the push list

\* the requests a step sends to the board
Sent == Len(board') - Len(board)

\* the list of the item before and after a step
ListBefore == items[1].push_list
ListAfter == items'[1].push_list

\* C17: a bump that does not raise moves an item on no list to to_sandbox
\* and an item on to_sandbox to to_production, each with one request to the
\* board; a bump of an item on to_production never raises, leaves it there
\* and sends nothing.
C17_Progression ==
    [][ call'.op = "bump_pushlist" =>
          /\ (ListBefore = None /\ call'.raised = None)
                => (ListAfter = "to_sandbox" /\ Sent = 1)
          /\ (ListBefore = "to_sandbox" /\ call'.raised = None)
                => (ListAfter = "to_production" /\ Sent = 1)
          /\ ListBefore = "to_production"
                => (call'.raised = None /\ items' = items /\ Sent = 0) ]_vars

\* an item that was on no list has been bumped three times: two requests
\* went to the board, the third bump found it on to_production
C17_Witness ==
    /\ call.op = "bump_pushlist"
    /\ call.raised = None
    /\ prev = items
    /\ items[1].push_list = "to_production"
    /\ Len(board) = 2
    /\ board[1] = [id_ |-> "PVTI_1", option |-> "TO_SANDBOX", ok |-> TRUE]
    /\ board[2] = [id_ |-> "PVTI_1", option |-> "TO_PRODUCTION", ok |-> TRUE]

\* C18: a call sends at most one request; when the request fails the call
\* raises and the item is as before, when it goes through the call does not
\* raise.
C18_WriteFirst ==
    [][ /\ Sent \in {0, 1}
        /\ Sent = 1 =>
             LET request == board'[Len(board')]
             IN  /\ ~request.ok => (call'.raised = "Exception" /\ items' = items)
                 /\ request.ok => call'.raised = None ]_vars

\* set_pushlist has failed on an item of to_sandbox
C18_Witness ==
    /\ call.op = "set_pushlist"
    /\ call.raised = "Exception"
    /\ items = prev
    /\ items[1].push_list = "to_sandbox"
    /\ board # <<>>
    /\ board[Len(board)] = [id_ |-> "PVTI_1", option |-> "TO_PRODUCTION", ok |-> FALSE]

\* C19: a bump of a Blocked item leaves the item as it is and sends nothing;
\* a block that does not raise leaves the item Blocked, whatever its list
\* was, and sends one request.
C19_Blocked ==
    [][ /\ (call'.op = "bump_pushlist" /\ ListBefore = "blocked")
              => (items' = items /\ Sent = 0)
        /\ (call'.op = "block" /\ call'.raised = None)
              => (ListAfter = "blocked" /\ Sent = 1) ]_vars

\* an item of to_production has been blocked and then bumped
C19_Witness ==
    /\ call.op = "bump_pushlist"
    /\ call.raised = "ValueError"
    /\ items[1].push_list = "blocked"
    /\ Len(board) = 2
    /\ board[1].option = "TO_PRODUCTION"
    /\ board[2] = [id_ |-> "PVTI_1", option |-> "BLOCKED", ok |-> TRUE]

\* -------------------------------------------------- notions of the union

RECURSIVE Replayed(_, _)
\* the registry that add makes of a list of items, from the empty registry
Replayed(l, k) ==
    IF k = 0 THEN <<>> ELSE AddList(Replayed(l, k - 1), l[k], FALSE)

RECURSIVE AddedTo(_, _, _)
\* the registry that add makes of a registry and a list of items
AddedTo(s, l, k) ==
    IF k = 0 THEN s ELSE AddList(AddedTo(s, l, k - 1), l[k], FALSE)

\* the item of other wins: when add has put it at the path of a member of
\* self, the only one of that path, and no later item of other is put there,
\* the member of that path is the item of other; the last item of other that
\* add does not drop is the last member
OtherWins(self, other) ==
    /\ \A k \in 1..Len(other) :
          LET p == AddPath(other[k].path, FALSE)
          IN  (/\ ~AddReturns(other[k].path, FALSE)
               /\ Cardinality({i \in 1..Len(self) : self[i].path = p}) = 1
               /\ \A j \in (k + 1)..Len(other) : AddPath(other[j].path, FALSE) # p)
              => \A n \in 1..Len(items) :
                    items[n].path = p => items[n] = [other[k] EXCEPT !.path = p]
    /\ (other # <<>> /\ ~AddReturns(other[Len(other)].path, FALSE))
          => items[Len(items)] =
                [other[Len(other)] EXCEPT !.path = AddPath(other[Len(other)].path, FALSE)]

\* C20 as stated: a + b is the registry that add makes, from the empty
\* registry, of the members of a and then the members of b; where both have
\* a path, the item of b is the member.
C20_UnionIsReplay ==
    call.op = "__add__" =>
        /\ items = Replayed(prev \o call.list, Len(prev) + Len(call.list))
        /\ OtherWins(prev, call.list)

\* C20, amended: a + b is the registry that add makes of the members of b,
\* starting from a as it is; where both have a path, the item of b is the
\* member.
C20_UnionIsCopyThenAdd ==
    call.op = "__add__" =>
        /\ items = AddedTo(prev, call.list, Len(call.list))
        /\ OtherWins(prev, call.list)

\* a registry that lists ofl/mp twice has been united with one that has
\* ofl/mp with another url: the copy keeps one of the two, the item of the
\* other registry has taken the place of the first
C20_Witness ==
    /\ call.op = "__add__"
    /\ Len(prev) = 2
    /\ prev[1] = prev[2]
    /\ prev[1].path = <<ofl, mp>>
    /\ call.list # <<>>
    /\ call.list[Len(call.list)].path = <<ofl, mp>>
    /\ call.list[Len(call.list)].url # prev[1].url
    /\ items = <<prev[2], call.list[Len(call.list)]>>

\* ------------------------------------------- notions of the difference

\* the members of a whose path is the path of no member of b, in a's order
Kept(a, b) ==
    SelectSeq(a, LAMBDA i : \A k \in 1..Len(b) : b[k].path # i.path)

\* C21 as stated: a - b is the list of the members of a whose path is the
\* path of no member of b, in a's order and as they are in a.
C21_DifferenceIsFilter ==
    call.op = "__sub__" => items = Kept(prev, call.list)

\* C21, amended: a - b is the registry that add makes, from the empty
\* registry, of the members of a whose path is the path of no member of b,
\* taken in a's order.
C21_DifferenceIsFilterThenAdd ==
    call.op = "__sub__" =>
        items = Replayed(Kept(prev, call.list), Len(Kept(prev, call.list)))

\* a lists a font file of ofl/mp and ofl/mp/sub, b has ofl/mp/sub: the
\* difference holds the family directory of the file
C21_Witness ==
    /\ call.op = "__sub__"
    /\ Len(prev) = 2
    /\ prev[1].path = <<ofl, mp, a_ttf>>
    /\ prev[2].path = <<ofl, mp, sub>>
    /\ Len(call.list) = 1
    /\ call.list[1].path = <<ofl, mp, sub>>
    /\ items = <<[prev[1] EXCEPT !.path = <<ofl, mp>>]>>

\* C30: a + b and a - b leave a and b as they were: the same members, and
\* every field of every member, the path too, as before.
C30_OperandsUnchanged ==
    call.op \in {"__add__", "__sub__"} =>
        (call.left = prev /\ call.right = call.list)

\* ---------------------------------------- notions of missing_paths

\* the path of a member in the form of the checkout
CheckoutPath(i) ==
    IF i.path # <<>> /\ i.path[1] \in DataRoots
    THEN google_path_to_repo_path(i.path) ELSE i.path

RECURSIVE Missing(_, _)
\* the paths C22 has reported for the first k members
Missing(self, k) ==
    IF k = 0 THEN <<>>
    ELSE IF self[k].category # "Deleted" /\ CheckoutPath(self[k]) \notin disk
         THEN Append(Missing(self, k - 1), CheckoutPath(self[k]))
         ELSE Missing(self, k - 1)

\* C22: missing_paths returns, in the order of the members, the paths in the
\* form of the checkout of the members that are not Deleted and do not
\* exist: no path of a Deleted member, and nothing when all members exist.
C22_MissingPaths ==
    call.op = "missing_paths" =>
        /\ call.res = Missing(items, Len(items))
        /\ (\A k \in 1..Len(items) : CheckoutPath(items[k]) \in disk) => call.res = <<>>

\* a registry of a Deleted family, a missing axisregistry file and an
\* existing lang file has been asked: the axisregistry file is reported in
\* the form of the checkout, though the checkout has it in the other form
C22_Witness ==
    /\ call.op = "missing_paths"
    /\ Len(items) = 3
    /\ items[1].path = <<ofl, mp>> /\ items[1].category = "Deleted"
    /\ items[2].path = <<axisregistry, bounce_textproto>> /\ items[2].category = "New"
    /\ items[3].path = <<lang, bounce_textproto>> /\ items[3].category = "New"
    /\ disk = { <<lang, Lib, gflanguages, data, bounce_textproto>>,
                <<axisregistry, bounce_textproto>> }
    /\ call.res = << <<axisregistry, Lib, axisregistry, data, bounce_textproto>> >>

\* -------------------------------------- notions of from_traffic_jam

\* the last page request failed
LastFailed == jam.requests # <<>> /\ ~jam.requests[Len(jam.requests)].ok

\* the call is in the part that fetches the pages (lines 438-458)
Fetching == jam.pc \in {"first", "while", "fetch", "ingest"}

\* C23: a page request that failed is made again with the same cursor, and
\* the call goes on asking; the items collected so far are the items of the
\* board up to the cursor, each once and none left out; the fetching is over
\* only when as many items as totalCount are collected.
C23_RetriedWithSameCursor ==
    /\ \A k \in 1..Len(jam.requests) :
          ~jam.requests[k].ok =>
              IF k < Len(jam.requests)
              THEN jam.requests[k + 1].after = jam.requests[k].after
              ELSE jam.pc = "fetch" /\ jam.last_item = jam.requests[k].after
    /\ jam.pc \in {"while", "fetch", "ingest"} =>
          jam.board_items = SubSeq(jam.service, 1, jam.last_item)
    /\ jam.pc \in {"sort", "done"} =>
          /\ Len(jam.board_items) >= Len(jam.service)
          /\ \A k \in 1..Len(jam.service) :
                \E j \in 1..Len(jam.board_items) : jam.board_items[j] = jam.service[k]

\* the pull requests of the board that put a file at path p
Touching(p) ==
    { k \in 1..Len(jam.service) :
        /\ HasKey(jam.service[k], "labels")
        /\ \E f \in 1..Len(jam.service[k].content.files) :
              /\ ~AddReturns(jam.service[k].content.files[f], FALSE)
              /\ AddPath(jam.service[k].content.files[f], FALSE) = p }

\* the pull request of Touching(p) that is last in the order of the urls
LastByUrl(p) ==
    CHOOSE k \in Touching(p) :
        \A j \in Touching(p) \ {k} :
            StrLess(jam.service[j].content.url, jam.service[k].content.url)

\* C25: the call that has fetched the board ends with a registry that has
\* one member for every path that a file of a labelled pull request is
\* normalized to, and the member of a path has the url, status, push_list,
\* merged, id_ and category of the pull request of that path that is last
\* in the order of the urls; an item without labels adds nothing and stops
\* nothing.
C25_LastUrlWins ==
    /\ jam.raised # "KeyError"
    /\ jam.pc = "done" =>
          /\ \A j, k \in 1..Len(items) : items[j].path = items[k].path => j = k
          /\ \A k \in 1..Len(items) : Touching(items[k].path) # {}
          /\ \A r \in 1..Len(jam.service) :
                HasKey(jam.service[r], "labels") =>
                    \A f \in 1..Len(jam.service[r].content.files) :
                        Touching(AddPath(jam.service[r].content.files[f], FALSE)) # {} =>
                            \E k \in 1..Len(items) :
                                items[k].path = AddPath(jam.service[r].content.files[f], FALSE)
          /\ \A k \in 1..Len(items) :
                LET pr == jam.service[LastByUrl(items[k].path)]
                IN  /\ items[k].url = pr.content.url
                    /\ items[k].status = pr.status
                    /\ items[k].push_list = pr.list
                    /\ items[k].merged = pr.content.merged
                    /\ items[k].id_ = pr.id
                    /\ items[k].category = CategoryOf(pr.content.labels)

\* C26: with a service that answers in the end and pages that hold
\* totalCount items together, the loop that fetches the pages is left, with
\* at least totalCount items; a request that fails leaves the call in the
\* loop, at the same cursor, however many have failed.
C26_LoopTerminates ==
    /\ (jam.pc \in {"while", "fetch", "ingest"}) ~>
          (jam.pc = "sort" /\ Len(jam.board_items) >= jam.item_count)
    /\ [][(jam.pc = "fetch" /\ Len(jam'.requests) > Len(jam.requests)
              /\ ~jam'.requests[Len(jam'.requests)].ok)
            => (jam'.pc = "fetch" /\ jam'.last_item = jam.last_item)]_vars

\* the loop is left with all items of a board of two pages, after a request
\* for the second page has failed
C26_Witness ==
    /\ jam.pc = "sort"
    /\ jam.item_count > PageSize
    /\ Len(jam.board_items) = jam.item_count
    /\ \E k \in 1..Len(jam.requests) :
          ~jam.requests[k].ok /\ jam.requests[k].after = PageSize

C28_AtLeastTwoSegments ==
    \A k \in 1..Len(items) : Len(items[k].path) >= 2

\* how often m is a member of s
Count(s, m) == Cardinality({k \in 1..Len(s) : s[k] = m})

\* C29: add removes a member only when its path is the path the incoming
\* item is stored at, or an ancestor directory of it: a member of any other
\* path is as often in the registry after the call as before, whatever the
\* registry was made of.
C29_EvictsOnlyRelated ==
    call.op = "add" =>
        \A k \in 1..Len(prev) :
            (prev[k].path # call.path /\ ~IsAncestor(prev[k].path, call.path))
                => Count(items, prev[k]) >= Count(prev, prev[k])

\* the place of a push list in None, to_sandbox, to_production
Rank(push_list) ==
    CASE push_list = None -> 0
      [] push_list = "to_sandbox" -> 1
      [] push_list = "to_production" -> 2
      [] OTHER -> 3

\* C27: when bump_pushlist is called again and again and its requests go
\* through in the end, an item on no list or on to_sandbox comes to
\* to_production; an item on to_production stays there, and no bump moves an
\* item back along None, to_sandbox, to_production.
C27_ReachesProduction ==
    /\ (items[1].push_list \in {None, "to_sandbox"})
          ~> (items[1].push_list = "to_production")
    /\ [][/\ Rank(items'[1].push_list) >= Rank(items[1].push_list)
          /\ items[1].push_list = "to_production"
                => items'[1].push_list = "to_production"]_vars

\* C27's case: an item that was on no list is on to_production after four
\* requests, two of which failed
C27_Witness ==
    /\ items[1].push_list = "to_production"
    /\ Len(board) = 4
    /\ board[1].option = "TO_SANDBOX" /\ ~board[1].ok
    /\ board[3].option = "TO_PRODUCTION" /\ ~board[3].ok

\* the members of PushCategory
PushCategories == {PushCategoryValues[n] : n \in 1..Len(PushCategoryValues)}

\* C31: every item that from_server_file returns has a category that is a
\* member of PushCategory, never None, whatever the text: it is Deleted or
\* the category in force at one of the data lines, and a "#" line that names
\* no category leaves the category in force as it was.
C31_CategoryIsMember ==
    (call.op = "from_server_file" /\ call.raised = None) =>
        \A k \in 1..Len(items) :
            /\ items[k].category \in PushCategories
            /\ items[k].category \in
                  {"Deleted"} \cup
                  { KnownCategory(Lines(doc), j) :
                      j \in {i \in 1..Len(Lines(doc)) : IsData(Lines(doc)[i])} }

====
